---- MODULE Spec2Model ----
(***************************************************************************)
(* A model of the thrift IDL front end: the tokenizer and recursive-descent *)
(* parser of thrust-parser/src/lib.rs and the generation loop of            *)
(* tokio-thrift-codegen/src/lib.rs.                                         *)
(*                                                                          *)
(* A source text is the sequence of its UTF-8 bytes: a character of one     *)
(* byte is the one-character string, a longer one (named, such as "NBSP")   *)
(* is followed by a continuation entry per further byte.  The cursor offset *)
(* pos is a byte offset, as in the source.  A panic of the source is        *)
(* recorded in the parser's panic field; a panicked parser takes no further *)
(* step.                                                                    *)
(***************************************************************************)
EXTENDS Integers, Sequences, FiniteSets, TLC

VARIABLES parser, last, input, pc, log, result

vars == <<parser, last, input, pc, log, result>>

(***************************************************************************)
(* Characters                                                               *)
(***************************************************************************)
Lower == {"a", "b", "c", "d", "e", "f", "g", "h", "i", "j", "k", "l", "m",
          "n", "o", "p", "q", "r", "s", "t", "u", "v", "w", "x", "y", "z"}

Upper == {"A", "B", "C", "D", "E", "F", "G", "H", "I", "J", "K", "L", "M",
          "N", "O", "P", "Q", "R", "S", "T", "U", "V", "W", "X", "Y", "Z"}

Digit == {"0", "1", "2", "3", "4", "5", "6", "7", "8", "9"}

\* char::is_whitespace: the ASCII white space and, for the characters outside
\* ASCII, U+00A0 NO-BREAK SPACE.
Whitespace == {" ", "\t", "\n", "\r", "NBSP"}

\* Characters that are two bytes long in UTF-8; every other one is one byte.
TwoByte == {"NBSP", "e_acute"}

Alphabet ==
    Lower \cup Upper \cup Digit \cup Whitespace \cup
    {"_", ":", ".", ";", ",", "\"", "=", "{", "}", "<", ">", "/", "#", "*",
     "@", "-", "'", "e_acute"}

\* The bytes of a character in UTF-8.  A text holds one entry per byte: the
\* character itself at its first byte and Cont at each byte after it, so
\* that an offset into the text is a byte offset.
Cont == "continuation byte"

Utf8Len(c) == IF c \in TwoByte THEN 2 ELSE 1

Utf8(c) == IF c \in TwoByte THEN <<c, Cont>> ELSE <<c>>

DigitVal(c) ==
    CASE c = "0" -> 0 [] c = "1" -> 1 [] c = "2" -> 2 [] c = "3" -> 3
      [] c = "4" -> 4 [] c = "5" -> 5 [] c = "6" -> 6 [] c = "7" -> 7
      [] c = "8" -> 8 [] c = "9" -> 9

\* The base-10 value of a run of digits (str::parse before the range check).
RECURSIVE DecimalTo(_, _)
DecimalTo(s, n) ==
    IF n = 0 THEN 0 ELSE 10 * DecimalTo(s, n - 1) + DigitVal(s[n])

Decimal(s) == DecimalTo(s, Len(s))

\* The largest value of an i16.
I16Max == 32767

(***************************************************************************)
(* Tokens                                                                   *)
(***************************************************************************)
Keywords == {"Struct", "Service", "Enum", "Namespace", "Required", "Optional",
             "Oneway", "Typedef", "Throws", "Exception", "Include", "Const"}

\* A payload-free token: Eq, Colon, SingleQuote, Dot, Semi, At, Comma, LCurly,
\* RCurly, LAngle, RAngle, Comment, Whitespace, Eof or B.
Tok(kind) == [kind |-> kind, num |-> 0, str |-> <<>>, kw |-> ""]

Number(n) == [kind |-> "Number", num |-> n, str |-> <<>>, kw |-> ""]

QuotedString(s) == [kind |-> "QuotedString", num |-> 0, str |-> s, kw |-> ""]

Ident(s) == [kind |-> "Ident", num |-> 0, str |-> s, kw |-> ""]

Keyword(k) == [kind |-> "Keyword", num |-> 0, str |-> <<>>, kw |-> k]

\* The spelling of the identifier arm's keyword table.
KeywordOf(w) ==
    CASE w = <<"n", "a", "m", "e", "s", "p", "a", "c", "e">> -> "Namespace"
      [] w = <<"s", "t", "r", "u", "c", "t">> -> "Struct"
      [] w = <<"e", "n", "u", "m">> -> "Enum"
      [] w = <<"s", "e", "r", "v", "i", "c", "e">> -> "Service"
      [] w = <<"o", "p", "t", "i", "o", "n", "a", "l">> -> "Optional"
      [] w = <<"r", "e", "q", "u", "i", "r", "e", "d">> -> "Required"
      [] w = <<"t", "h", "r", "o", "w", "s">> -> "Throws"
      [] w = <<"o", "n", "e", "w", "a", "y">> -> "Oneway"
      [] w = <<"t", "y", "p", "e", "d", "e", "f">> -> "Typedef"
      [] w = <<"e", "x", "c", "e", "p", "t", "i", "o", "n">> -> "Exception"
      [] w = <<"i", "n", "c", "l", "u", "d", "e">> -> "Include"
      [] w = <<"c", "o", "n", "s", "t">> -> "Const"
      [] OTHER -> ""

(***************************************************************************)
(* The parser's state and the cursor primitives                             *)
(***************************************************************************)
NoPanic == ""
PastEof == "attempted to bump past eof."
UnwrapNone == "called Option::unwrap() on a None value"
NotCharBoundary == "byte index is not a char boundary"
ParseIntError == "called Result::unwrap() on an Err value: ParseIntError"

\* Parser::new
New(text) ==
    [buffer |-> text, pos |-> 0, token |-> Tok("B"), last_token_eof |-> FALSE,
     panic |-> NoPanic]

Panic(p, msg) == [p EXCEPT !.panic = msg]

eof(p) == p.pos >= Len(p.buffer)

\* next_char: the character at the cursor, or the panic of the slice
\* buffer[pos..] inside a character or of the unwrap on an empty rest.
next_char(p) ==
    IF p.pos >= Len(p.buffer) THEN [c |-> "", panic |-> UnwrapNone]
    ELSE IF p.buffer[p.pos + 1] = Cont THEN [c |-> "", panic |-> NotCharBoundary]
    ELSE [c |-> p.buffer[p.pos + 1], panic |-> NoPanic]

\* consume_char: the cursor moves by the offset of the following character,
\* or by 1 when there is none.
consume_char(p) ==
    LET nc == next_char(p)
        next_pos == IF p.pos + Utf8Len(nc.c) < Len(p.buffer)
                    THEN Utf8Len(nc.c) ELSE 1
    IN IF nc.panic # NoPanic THEN [p |-> Panic(p, nc.panic), c |-> ""]
       ELSE [p |-> [p EXCEPT !.pos = @ + next_pos], c |-> nc.c]

\* Bind(v, F) is F(v) with v evaluated once, before F is applied to it: the
\* sequencing of the source's statements.
Bind(v, F(_)) == CHOOSE y \in {F(x) : x \in {v}} : TRUE

\* consume_while: test is the set of the characters the closure accepts.
RECURSIVE consume_while(_, _)
consume_while(p, test) ==
    IF eof(p) THEN [p |-> p, s |-> <<>>]
    ELSE Bind(next_char(p), LAMBDA nc :
         IF nc.panic # NoPanic THEN [p |-> Panic(p, nc.panic), s |-> <<>>]
         ELSE IF nc.c \notin test THEN [p |-> p, s |-> <<>>]
         ELSE Bind(consume_char(p), LAMBDA cc :
              Bind(consume_while(cc.p, test), LAMBDA rest :
              [p |-> rest.p, s |-> <<cc.c>> \o rest.s])))

consume_whitespace(p) == Bind(consume_while(p, Whitespace), LAMBDA w : w.p)

\* The closures handed to consume_while, as the sets they accept.
NotQuote == Alphabet \ {"\""}

NotEol == Alphabet \ {"\n", "\r"}

NotStar == Alphabet \ {"*"}

IdentStart == Lower \cup Upper \cup {"_"}

IdentChar == Lower \cup Upper \cup {"_"} \cup Digit

(***************************************************************************)
(* The tokenizer                                                            *)
(***************************************************************************)
Panicked(p) == p.panic # NoPanic

\* The loop of the block-comment arm: skip to a '*', consume it, and stop when
\* the character after it is '/'.
RECURSIVE BlockCommentLoop(_)
BlockCommentLoop(p) ==
    Bind(consume_while(p, NotStar), LAMBDA w :
    IF Panicked(w.p) THEN w.p
    ELSE Bind(consume_char(w.p), LAMBDA star :
         IF Panicked(star.p) THEN star.p
         ELSE Bind(next_char(star.p), LAMBDA nc :
              IF nc.panic # NoPanic THEN Panic(star.p, nc.panic)
              ELSE IF nc.c = "/" THEN star.p
              ELSE BlockCommentLoop(star.p))))

\* The arm of '/' and '#', entered with ch consumed.
CommentArm(p, ch) ==
    Bind(next_char(p), LAMBDA nc :
    IF nc.panic # NoPanic THEN [p |-> Panic(p, nc.panic), t |-> Tok("Eof")]
    ELSE IF nc.c = "/" \/ ch = "#"
    THEN Bind(consume_while(p, NotEol), LAMBDA w : [p |-> w.p, t |-> Tok("Comment")])
    ELSE IF nc.c = "*"
    THEN Bind(consume_char(p), LAMBDA star :
         Bind(BlockCommentLoop(star.p), LAMBDA body :
         IF Panicked(body) THEN [p |-> body, t |-> Tok("Comment")]
         ELSE Bind(consume_char(body), LAMBDA slash :
              [p |-> slash.p, t |-> Tok("Comment")])))
    ELSE [p |-> p, t |-> Tok("Eof")])

\* A quoted-string arm that stops at the closing quote without consuming it.
QuotedStringArmOpen(p) ==
    Bind(consume_while(p, NotQuote), LAMBDA w : [p |-> w.p, t |-> QuotedString(w.s)])

\* The arm of '"', entered with the opening quote consumed.
QuotedStringArm(p) ==
    Bind(consume_while(p, NotQuote), LAMBDA w :
    IF Panicked(w.p) THEN [p |-> w.p, t |-> QuotedString(w.s)]
    ELSE Bind(consume_char(w.p), LAMBDA close :
         [p |-> close.p, t |-> QuotedString(w.s)]))

\* A number arm that wraps a value too large for an i16 instead of panicking.
NumberArmWrapping(p, ch) ==
    Bind(consume_while(p, Digit), LAMBDA w :
    Bind(Decimal(<<ch>> \o w.s), LAMBDA val :
    IF Panicked(w.p) THEN [p |-> w.p, t |-> Tok("Eof")]
    ELSE [p |-> w.p, t |-> Number(((val + I16Max + 1) % (2 * I16Max + 2)) - I16Max - 1)]))

\* The arm of '0'...'9', entered with the first digit ch consumed.
NumberArm(p, ch) ==
    Bind(consume_while(p, Digit), LAMBDA w :
    Bind(Decimal(<<ch>> \o w.s), LAMBDA val :
    IF Panicked(w.p) THEN [p |-> w.p, t |-> Tok("Eof")]
    ELSE IF val > I16Max THEN [p |-> Panic(w.p, ParseIntError), t |-> Tok("Eof")]
    ELSE [p |-> w.p, t |-> Number(val)]))

\* An identifier arm without the keyword table.
IdentArmPlain(p, ch) ==
    Bind(consume_while(p, IdentChar), LAMBDA w :
    IF Panicked(w.p) THEN [p |-> w.p, t |-> Tok("Eof")]
    ELSE [p |-> w.p, t |-> Ident(<<ch>> \o w.s)])

\* The identifier arm, entered with the first character ch consumed.
IdentArm(p, ch) ==
    Bind(consume_while(p, IdentChar), LAMBDA w :
    Bind(<<ch>> \o w.s, LAMBDA ident :
    IF Panicked(w.p) THEN [p |-> w.p, t |-> Tok("Eof")]
    ELSE IF KeywordOf(ident) # "" THEN [p |-> w.p, t |-> Keyword(KeywordOf(ident))]
    ELSE [p |-> w.p, t |-> Ident(ident)]))

\* The match of next_token, entered with ch consumed.
RECURSIVE next_token(_)
Match(p, ch) ==
    CASE ch = ":" -> [p |-> p, t |-> Tok("Colon")]
      [] ch = "." -> [p |-> p, t |-> Tok("Dot")]
      [] ch = ";" -> [p |-> p, t |-> Tok("Semi")]
      [] ch = "," -> [p |-> p, t |-> Tok("Comma")]
      [] ch = "\"" -> QuotedStringArm(p)
      [] ch = "=" -> [p |-> p, t |-> Tok("Eq")]
      [] ch = "{" -> [p |-> p, t |-> Tok("LCurly")]
      [] ch = "}" -> [p |-> p, t |-> Tok("RCurly")]
      [] ch = "<" -> [p |-> p, t |-> Tok("LAngle")]
      [] ch = ">" -> [p |-> p, t |-> Tok("RAngle")]
      [] ch \in Digit -> NumberArm(p, ch)
      [] ch \in {"/", "#"} -> CommentArm(p, ch)
      [] ch \in Whitespace ->
           Bind(consume_whitespace(p), LAMBDA ws :
           IF Panicked(ws) THEN [p |-> ws, t |-> Tok("Eof")]
           ELSE next_token(ws))
      [] ch \in IdentStart -> IdentArm(p, ch)
      [] OTHER -> [p |-> p, t |-> Tok("Eof")]

\* A next_token that starts over from the beginning of the buffer when it is
\* called at its end.
next_token_rescan(p) ==
    IF eof(p) THEN [p |-> [p EXCEPT !.pos = 0], t |-> Tok("Eof")]
    ELSE Bind(consume_char(p), LAMBDA cc :
         IF Panicked(cc.p) THEN [p |-> cc.p, t |-> Tok("Eof")]
         ELSE Match(cc.p, cc.c))

\* next_token: the parser after the call and the token returned (t is
\* meaningless when the call panics).
next_token(p) ==
    IF eof(p) THEN [p |-> p, t |-> Tok("Eof")]
    ELSE Bind(consume_char(p), LAMBDA cc :
         IF Panicked(cc.p) THEN [p |-> cc.p, t |-> Tok("Eof")]
         ELSE Match(cc.p, cc.c))

(***************************************************************************)
(* The parser's primitives.  An operation that returns a value gives the    *)
(* parser after the call as p and the value as r.  When the call panics,    *)
(* p.panic is set and r is the operation's failure value, which no caller   *)
(* ever sees.                                                               *)
(***************************************************************************)
Ok(v) == [ok |-> TRUE, val |-> v]

Err == [ok |-> FALSE, err |-> "Expected"]

\* A routine's return of Err(Error::Expected), or its unwinding, at parser p.
Fail(p) == [p |-> p, r |-> Err]

\* A bump that does not record that it consumed an end-of-input lookahead.
bump_unflagged(p) ==
    IF p.last_token_eof THEN Panic(p, PastEof)
    ELSE Bind(next_token(p),
              LAMBDA nt : IF Panicked(nt.p) THEN nt.p
                          ELSE [nt.p EXCEPT !.token = nt.t])

bump(p) ==
    IF p.last_token_eof THEN Panic(p, PastEof)
    ELSE Bind(next_token(IF p.token = Tok("Eof")
                         THEN [p EXCEPT !.last_token_eof = TRUE] ELSE p),
              LAMBDA nt : IF Panicked(nt.p) THEN nt.p
                          ELSE [nt.p EXCEPT !.token = nt.t])

\* A skip_b that bumps whatever the lookahead is.
skip_b_always(p) == bump(p)

skip_b(p) == IF p.token = Tok("B") THEN bump(p) ELSE p

\* An eat that advances whether or not the lookahead matches.
eat_always(p, token) ==
    Bind(IF p.token = Tok("B") THEN bump(p) ELSE p, LAMBDA loaded :
    IF Panicked(loaded) THEN [p |-> loaded, r |-> FALSE]
    ELSE Bind(bump(loaded), LAMBDA bumped :
         [p |-> bumped, r |-> ~Panicked(bumped) /\ loaded.token = token]))

eat(p, token) ==
    Bind(IF p.token = Tok("B") THEN bump(p) ELSE p, LAMBDA loaded :
    IF Panicked(loaded) THEN [p |-> loaded, r |-> FALSE]
    ELSE IF loaded.token = token
    THEN Bind(bump(loaded), LAMBDA bumped : [p |-> bumped, r |-> ~Panicked(bumped)])
    ELSE [p |-> loaded, r |-> FALSE])

eat_keyword(p, keyword) == eat(p, Keyword(keyword))

expect_keyword(p, keyword) ==
    Bind(eat_keyword(p, keyword), LAMBDA e :
    [p |-> e.p, r |-> IF e.r THEN Ok(<<>>) ELSE Err])

expect(p, token) ==
    Bind(eat(p, token), LAMBDA e :
    [p |-> e.p, r |-> IF e.r THEN Ok(e.p.token) ELSE Err])

\* The tail shared by the routines that return the lookahead's payload:
\* bump, then Ok(v).
BumpOk(p, v) ==
    Bind(bump(p), LAMBDA bumped :
    [p |-> bumped, r |-> IF Panicked(bumped) THEN Err ELSE Ok(v)])

expect_string(p) ==
    IF p.token.kind = "QuotedString" THEN BumpOk(p, p.token.str)
    ELSE Fail(p)

parse_ident(p) ==
    Bind(IF p.token = Tok("B") THEN bump(p) ELSE p, LAMBDA loaded :
    IF Panicked(loaded) THEN Fail(loaded)
    ELSE IF loaded.token.kind = "Ident" THEN BumpOk(loaded, loaded.token.str)
    ELSE Fail(loaded))

expect_ident(p) ==
    IF p.token.kind = "Ident" THEN BumpOk(p, p.token.str)
    ELSE Fail(p)

parse_number(p) ==
    Bind(skip_b(p), LAMBDA loaded :
    IF Panicked(loaded) THEN Fail(loaded)
    ELSE IF loaded.token.kind = "Number" THEN BumpOk(loaded, loaded.token.num)
    ELSE Fail(loaded))

(***************************************************************************)
(* The parse routines                                                       *)
(***************************************************************************)
StructField(seq, attr, ty, ident) ==
    [seq |-> seq, attr |-> attr, ty |-> ty, ident |-> ident]

\* An attribute that defaults to required when neither keyword is written.
ParseAttrDefault(p) ==
    Bind(eat_keyword(p, "Optional"), LAMBDA opt :
    IF Panicked(opt.p) THEN Fail(opt.p)
    ELSE IF opt.r THEN [p |-> opt.p, r |-> Ok("Optional")]
    ELSE Bind(eat_keyword(opt.p, "Required"), LAMBDA req :
         IF Panicked(req.p) THEN Fail(req.p)
         ELSE [p |-> req.p, r |-> Ok("Required")]))

\* The attribute of parse_struct_field: optional, else required, else Err.
ParseAttr(p) ==
    Bind(eat_keyword(p, "Optional"), LAMBDA opt :
    IF Panicked(opt.p) THEN Fail(opt.p)
    ELSE IF opt.r THEN [p |-> opt.p, r |-> Ok("Optional")]
    ELSE Bind(eat_keyword(opt.p, "Required"), LAMBDA req :
         IF req.r THEN [p |-> req.p, r |-> Ok("Required")]
         ELSE Fail(req.p)))

parse_struct_field(p) ==
    Bind(parse_number(p), LAMBDA seq :
    IF ~seq.r.ok THEN Fail(seq.p) ELSE
    Bind(expect(seq.p, Tok("Colon")), LAMBDA colon :
    IF ~colon.r.ok THEN Fail(colon.p) ELSE
    Bind(ParseAttr(colon.p), LAMBDA attr :
    IF ~attr.r.ok THEN Fail(attr.p) ELSE
    Bind(parse_ident(attr.p), LAMBDA ty :
    IF ~ty.r.ok THEN Fail(ty.p) ELSE
    Bind(parse_ident(ty.p), LAMBDA ident :
    IF ~ident.r.ok THEN Fail(ident.p) ELSE
    [p |-> ident.p,
     r |-> Ok(StructField(seq.r.val, attr.r.val, ty.r.val, ident.r.val))])))))

\* A push at the front of the list.
PushFront(list, item) == <<item>> \o list

\* Vec::push
Push(list, item) == Append(list, item)

\* The loop of parse_struct, entered with the fields pushed so far.
RECURSIVE StructLoop(_, _)
StructLoop(p, fields) ==
    Bind(eat(p, Tok("RCurly")), LAMBDA close :
    IF Panicked(close.p) THEN Fail(close.p)
    ELSE IF close.r THEN [p |-> close.p, r |-> Ok(fields)]
    ELSE Bind(parse_struct_field(close.p), LAMBDA field :
         IF ~field.r.ok THEN Fail(field.p) ELSE
         Bind(Push(fields, field.r.val), LAMBDA pushed :
         Bind(eat(field.p, Tok("Semi")), LAMBDA semi :
         IF Panicked(semi.p) THEN Fail(semi.p)
         ELSE IF semi.r THEN StructLoop(semi.p, pushed)
         ELSE [p |-> semi.p, r |-> Ok(pushed)]))))

parse_struct(p) ==
    Bind(expect_keyword(p, "Struct"), LAMBDA kw :
    IF ~kw.r.ok THEN Fail(kw.p) ELSE
    Bind(expect_ident(kw.p), LAMBDA ident :
    IF ~ident.r.ok THEN Fail(ident.p) ELSE
    Bind(expect(ident.p, Tok("LCurly")), LAMBDA open :
    IF ~open.r.ok THEN Fail(open.p) ELSE
    Bind(StructLoop(open.p, <<>>), LAMBDA body :
    IF ~body.r.ok THEN Fail(body.p) ELSE
    [p |-> body.p, r |-> Ok([ident |-> ident.r.val, fields |-> body.r.val])]))))

\* A loop of parse_enum that leaves after its first variant, separator or
\* not.
EnumLoopOnce(p, variants) ==
    Bind(eat(p, Tok("RCurly")), LAMBDA close :
    IF Panicked(close.p) THEN Fail(close.p)
    ELSE IF close.r THEN [p |-> close.p, r |-> Ok(variants)]
    ELSE Bind(parse_ident(close.p), LAMBDA variant :
         IF ~variant.r.ok THEN Fail(variant.p) ELSE
         Bind(eat(variant.p, Tok("Comma")), LAMBDA comma :
         IF Panicked(comma.p) THEN Fail(comma.p)
         ELSE [p |-> comma.p, r |-> Ok(Push(variants, variant.r.val))])))

\* A loop that takes a variant not followed by ',' or '}' for an error.
RECURSIVE EnumLoopStrict(_, _)
EnumLoopStrict(p, variants) ==
    Bind(eat(p, Tok("RCurly")), LAMBDA close :
    IF Panicked(close.p) THEN Fail(close.p)
    ELSE IF close.r THEN [p |-> close.p, r |-> Ok(variants)]
    ELSE Bind(parse_ident(close.p), LAMBDA variant :
         IF ~variant.r.ok THEN Fail(variant.p) ELSE
         Bind(Push(variants, variant.r.val), LAMBDA pushed :
         Bind(eat(variant.p, Tok("Comma")), LAMBDA comma :
         IF Panicked(comma.p) THEN Fail(comma.p)
         ELSE IF comma.r THEN EnumLoopStrict(comma.p, pushed)
         ELSE IF comma.p.token = Tok("RCurly") THEN [p |-> comma.p, r |-> Ok(pushed)]
         ELSE Fail(comma.p)))))

\* The loop of parse_enum, entered with the variants pushed so far.
RECURSIVE EnumLoop(_, _)
EnumLoop(p, variants) ==
    Bind(eat(p, Tok("RCurly")), LAMBDA close :
    IF Panicked(close.p) THEN Fail(close.p)
    ELSE IF close.r THEN [p |-> close.p, r |-> Ok(variants)]
    ELSE Bind(parse_ident(close.p), LAMBDA variant :
         IF ~variant.r.ok THEN Fail(variant.p) ELSE
         Bind(Push(variants, variant.r.val), LAMBDA pushed :
         Bind(eat(variant.p, Tok("Comma")), LAMBDA comma :
         IF Panicked(comma.p) THEN Fail(comma.p)
         ELSE IF comma.r THEN EnumLoop(comma.p, pushed)
         ELSE [p |-> comma.p, r |-> Ok(pushed)]))))

parse_enum(p) ==
    Bind(expect_keyword(p, "Enum"), LAMBDA kw :
    IF ~kw.r.ok THEN Fail(kw.p) ELSE
    Bind(expect_ident(kw.p), LAMBDA ident :
    IF ~ident.r.ok THEN Fail(ident.p) ELSE
    Bind(expect(ident.p, Tok("LCurly")), LAMBDA open :
    IF ~open.r.ok THEN Fail(open.p) ELSE
    Bind(EnumLoop(open.p, <<>>), LAMBDA body :
    IF ~body.r.ok THEN Fail(body.p) ELSE
    [p |-> body.p, r |-> Ok([ident |-> ident.r.val, variants |-> body.r.val])]))))

parse_include(p) ==
    Bind(expect_keyword(p, "Include"), LAMBDA kw :
    IF ~kw.r.ok THEN Fail(kw.p) ELSE
    Bind(expect_string(kw.p), LAMBDA path :
    IF ~path.r.ok THEN Fail(path.p) ELSE
    [p |-> path.p, r |-> Ok([path |-> path.r.val])]))

parse_typedef(p) ==
    Bind(expect_keyword(p, "Typedef"), LAMBDA kw :
    IF ~kw.r.ok THEN Fail(kw.p) ELSE
    Bind(expect_ident(kw.p), LAMBDA ty :
    IF ~ty.r.ok THEN Fail(ty.p) ELSE
    Bind(expect_ident(ty.p), LAMBDA alias :
    IF ~alias.r.ok THEN Fail(alias.p) ELSE
    [p |-> alias.p, r |-> Ok(<<ty.r.val, alias.r.val>>)])))

parse_namespace(p) ==
    Bind(expect_keyword(p, "Namespace"), LAMBDA kw :
    IF ~kw.r.ok THEN Fail(kw.p) ELSE
    Bind(expect_ident(kw.p), LAMBDA lang :
    IF ~lang.r.ok THEN Fail(lang.p) ELSE
    Bind(expect_ident(lang.p), LAMBDA module :
    IF ~module.r.ok THEN Fail(module.p) ELSE
    [p |-> module.p, r |-> Ok([lang |-> lang.r.val, module |-> module.r.val])])))

(***************************************************************************)
(* The parts of the parser that the generation loop calls and that are not  *)
(* in the parser's source: they follow the design document.                 *)
(***************************************************************************)
\* lookahead: a peek that loads the first token when none is loaded and
\* consumes nothing.
lookahead(p, token) ==
    Bind(IF p.token = Tok("B") THEN bump(p) ELSE p, LAMBDA loaded :
    [p |-> loaded, r |-> ~Panicked(loaded) /\ loaded.token = token])

lookahead_keyword(p, keyword) == lookahead(p, Keyword(keyword))

\* const <type> <name> = <number>
parse_const(p) ==
    Bind(expect_keyword(p, "Const"), LAMBDA kw :
    IF ~kw.r.ok THEN Fail(kw.p) ELSE
    Bind(expect_ident(kw.p), LAMBDA ty :
    IF ~ty.r.ok THEN Fail(ty.p) ELSE
    Bind(expect_ident(ty.p), LAMBDA ident :
    IF ~ident.r.ok THEN Fail(ident.p) ELSE
    Bind(expect(ident.p, Tok("Eq")), LAMBDA eq :
    IF ~eq.r.ok THEN Fail(eq.p) ELSE
    Bind(parse_number(eq.p), LAMBDA value :
    IF ~value.r.ok THEN Fail(value.p) ELSE
    [p |-> value.p,
     r |-> Ok([ty |-> ty.r.val, ident |-> ident.r.val, value |-> value.r.val])])))))

\* The loop of parse_service in the shape the design document gives the
\* brace-delimited lists: the closing brace first, else one item, then the
\* separator or the closing brace.
RECURSIVE ServiceLoop(_, _)
ServiceLoop(p, methods) ==
    Bind(eat(p, Tok("RCurly")), LAMBDA close :
    IF Panicked(close.p) THEN Fail(close.p)
    ELSE IF close.r THEN [p |-> close.p, r |-> Ok(methods)]
    ELSE Bind(parse_ident(close.p), LAMBDA method :
         IF ~method.r.ok THEN Fail(method.p) ELSE
         Bind(Push(methods, method.r.val), LAMBDA pushed :
         Bind(eat(method.p, Tok("Comma")), LAMBDA comma :
         IF Panicked(comma.p) THEN Fail(comma.p)
         ELSE IF comma.r THEN ServiceLoop(comma.p, pushed)
         ELSE Bind(expect(comma.p, Tok("RCurly")), LAMBDA brace :
              IF ~brace.r.ok THEN Fail(brace.p)
              ELSE [p |-> brace.p, r |-> Ok(pushed)])))))

\* service <name> { <method>, ... }
parse_service(p) ==
    Bind(expect_keyword(p, "Service"), LAMBDA kw :
    IF ~kw.r.ok THEN Fail(kw.p) ELSE
    Bind(expect_ident(kw.p), LAMBDA ident :
    IF ~ident.r.ok THEN Fail(ident.p) ELSE
    Bind(expect(ident.p, Tok("LCurly")), LAMBDA open :
    IF ~open.r.ok THEN Fail(open.p) ELSE
    Bind(ServiceLoop(open.p, <<>>), LAMBDA body :
    IF ~body.r.ok THEN Fail(body.p) ELSE
    [p |-> body.p, r |-> Ok([ident |-> ident.r.val, methods |-> body.r.val])]))))

(***************************************************************************)
(* The generation loop (compile).  The writer is taken to accept every      *)
(* write and the template engine to render every record, so an emission is  *)
(* the entry it appends to log.                                             *)
(***************************************************************************)
\* impl From<tokio_thrift_parser::Error> for Error
From(val) == [kind |-> "Parser", err |-> val.err]

\* An if-chain without the service branch.
OrderNoService == <<"Enum", "Struct", "Typedef", "Const">>

\* The if-chain of the loop: the first keyword, in the order enum, struct,
\* typedef, const, service, that lookahead_keyword finds, or "break".
Order == <<"Enum", "Struct", "Typedef", "Const", "Service">>

RECURSIVE DispatchFrom(_, _)
DispatchFrom(p, i) ==
    IF i > Len(Order) THEN [p |-> p, kind |-> "break"]
    ELSE Bind(lookahead_keyword(p, Order[i]), LAMBDA la :
         IF Panicked(la.p) THEN [p |-> la.p, kind |-> "panic"]
         ELSE IF la.r THEN [p |-> la.p, kind |-> Order[i]]
         ELSE Bind(i + 1, LAMBDA j : DispatchFrom(la.p, j)))

Dispatch(p) == DispatchFrom(p, 1)

\* A parse routine that returns Ok and consumes nothing.
ParseOfNothing(kind, p) == [p |-> p, r |-> Ok(<<>>)]

\* The parse routine of each branch.
ParseOf(kind, p) ==
    CASE kind = "Enum" -> parse_enum(p)
      [] kind = "Struct" -> parse_struct(p)
      [] kind = "Typedef" -> parse_typedef(p)
      [] kind = "Const" -> parse_const(p)
      [] kind = "Service" -> parse_service(p)

\* A service branch that renders the service template only.
TemplatesOneEach(kind) ==
    CASE kind = "Enum" -> <<"enum">>
      [] kind = "Struct" -> <<"struct">>
      [] kind = "Typedef" -> <<"typedef">>
      [] kind = "Const" -> <<"const">>
      [] kind = "Service" -> <<"service">>

\* The templates each branch renders, in order.
Templates(kind) ==
    CASE kind = "Enum" -> <<"enum">>
      [] kind = "Struct" -> <<"struct">>
      [] kind = "Typedef" -> <<"typedef">>
      [] kind = "Const" -> <<"const">>
      [] kind = "Service" -> <<"service", "service_client", "service_server">>

Render(template, data) == [ev |-> "render", template |-> template, data |-> data]

Parsed(kind, r) == [ev |-> "parse", kind |-> kind, ok |-> r.ok]

\* What one branch of the loop appends to log once its parse routine has
\* returned r: the parse, and on Ok the renderings of its templates.
Emit(kind, r) ==
    <<Parsed(kind, r)>> \o
    (IF r.ok THEN [i \in 1..Len(Templates(kind)) |->
                       Render(Templates(kind)[i], r.val)]
     ELSE <<>>)

\* A loop that goes on to the next construct after a failure.
AfterRetry(r) == "loop"

\* Where the loop goes once the parse routine has returned r.
After(r) == IF r.ok THEN "loop" ELSE "err"

(***************************************************************************)
(* Source texts.  A text is described by a sequence of descriptors, one per *)
(* top-level piece: its kind, the number n of its items and its form.       *)
(*   plain     items separated by the separator, as the grammar writes them *)
(*   trail     a separator after the last item as well                      *)
(*   nosep     no separator between the items                               *)
(*   comment   plain, with a line comment after the opening brace           *)
(*   numident  plain, with a number where the last item's name should be    *)
(*   noattr    plain, the last field without optional/required              *)
(*   cpp, Rust a namespace of that language (a plain one is of rust)        *)
(*   block     a block comment (a plain Hash piece is a '#')                *)
(*   open      a block comment that is not closed                           *)
(* The piece at position j is named DefNames[j].                            *)
(***************************************************************************)
MaxItems == 2

MaxDefs == 2

MaxLexLen == 3

MaxCalls == 5

MaxNs == 3

Spelling(k) ==
    CASE k = "Namespace" -> <<"n", "a", "m", "e", "s", "p", "a", "c", "e">>
      [] k = "Struct" -> <<"s", "t", "r", "u", "c", "t">>
      [] k = "Enum" -> <<"e", "n", "u", "m">>
      [] k = "Service" -> <<"s", "e", "r", "v", "i", "c", "e">>
      [] k = "Optional" -> <<"o", "p", "t", "i", "o", "n", "a", "l">>
      [] k = "Required" -> <<"r", "e", "q", "u", "i", "r", "e", "d">>
      [] k = "Typedef" -> <<"t", "y", "p", "e", "d", "e", "f">>
      [] k = "Include" -> <<"i", "n", "c", "l", "u", "d", "e">>
      [] k = "Const" -> <<"c", "o", "n", "s", "t">>
      [] k = "Throws" -> <<"t", "h", "r", "o", "w", "s">>
      [] k = "Oneway" -> <<"o", "n", "e", "w", "a", "y">>
      [] k = "Exception" -> <<"e", "x", "c", "e", "p", "t", "i", "o", "n">>

DefNames == <<"P", "Q", "R", "S", "T", "U">>

VariantNames == <<"A", "B", "C", "D", "E", "F">>

FieldNames == <<"u", "v", "w", "x", "y", "z">>

SeqDigits == <<"1", "2", "3", "4", "5", "6">>

I32 == <<"i", "3", "2">>

LineComment == <<"/", "/", "c", "\n">>

Attr(i) == IF i % 2 = 1 THEN "Required" ELSE "Optional"

\* The i-th field as it is written and as it is to be parsed.
FieldValue(i) == StructField(i, Attr(i), I32, <<FieldNames[i]>>)

FieldWords(i, form) ==
    <<<<SeqDigits[i]>>, <<":">>>> \o
    (IF form = "noattr" THEN <<>> ELSE <<Spelling(Attr(i))>>) \o
    <<I32, IF form = "numident" THEN <<"7">> ELSE <<FieldNames[i]>>>>

\* The words of item i of n of a brace-delimited list.
ItemWords(kind, i, n, form) ==
    LET f == IF i = n THEN form ELSE "plain" IN
    CASE kind = "Struct" -> FieldWords(i, f)
      [] kind = "Enum" ->
           <<IF f = "numident" THEN <<"7">> ELSE <<VariantNames[i]>>>>
      [] kind = "Service" -> <<<<FieldNames[i]>>>>

Separator(kind) == IF kind = "Struct" THEN <<";">> ELSE <<",">>

\* The language a namespace piece is written for: its form when that names
\* one, else rust.
Lang(form) ==
    CASE form = "cpp" -> <<"c", "p", "p">>
      [] form = "Rust" -> <<"R", "u", "s", "t">>
      [] OTHER -> <<"r", "u", "s", "t">>

RECURSIVE BodyWords(_, _, _, _)
BodyWords(kind, i, n, form) ==
    IF i > n THEN <<>>
    ELSE ItemWords(kind, i, n, form) \o
         (IF (i < n /\ form # "nosep") \/ (i = n /\ form = "trail")
          THEN <<Separator(kind)>> ELSE <<>>) \o
         BodyWords(kind, i + 1, n, form)

\* The words of the piece d at position j.
Words(d, j) ==
    LET name == <<DefNames[j]>> IN
    CASE d.kind \in {"Struct", "Enum", "Service"} ->
           <<Spelling(d.kind), name, <<"{">>>> \o
           (IF d.form = "comment" THEN <<LineComment>> ELSE <<>>) \o
           BodyWords(d.kind, 1, d.n, d.form) \o <<<<"}">>>>
      [] d.kind = "Typedef" ->
           <<Spelling("Typedef"),
             IF d.form = "numident" THEN <<"7">> ELSE I32, name>>
      [] d.kind = "Const" -> <<Spelling("Const"), I32, name, <<"=">>, <<"5">>>>
      [] d.kind = "Namespace" -> <<Spelling("Namespace"), Lang(d.form), name>>
      [] d.kind = "Include" -> <<Spelling("Include"), <<"\"", "f", "\"">>>>
      [] d.kind = "Field" -> FieldWords(1, d.form)
      [] d.kind = "Junk" -> <<<<"@">>, <<":">>>>
      [] d.kind = "Hash" ->
           IF d.form = "block" THEN <<<<"/", "*", "*", "*", "/">>>>
           ELSE IF d.form = "open" THEN <<<<"/", "*">>, name, <<"*">>>>
           ELSE <<<<"#">>>>

RECURSIVE Join(_, _)
Join(words, sep) ==
    IF words = <<>> THEN <<>>
    ELSE IF Len(words) = 1 THEN words[1]
    ELSE words[1] \o sep \o Join(Tail(words), sep)

\* The text of a sequence of descriptors: the words of a piece a blank
\* apart, the pieces a line apart.
Text(ds) == Join([j \in 1..Len(ds) |-> Join(Words(ds[j], j), <<" ">>)], <<"\n">>)

Desc(kind, n, form) == [kind |-> kind, n |-> n, form |-> form]

\* What the grammar makes of a plain piece d at position j.
Value(d, j) ==
    CASE d.kind = "Enum" ->
           [ident |-> <<DefNames[j]>>,
            variants |-> [i \in 1..d.n |-> <<VariantNames[i]>>]]
      [] d.kind = "Struct" ->
           [ident |-> <<DefNames[j]>>, fields |-> [i \in 1..d.n |-> FieldValue(i)]]
      [] d.kind = "Typedef" -> <<I32, <<DefNames[j]>>>>
      [] d.kind = "Namespace" -> [lang |-> Lang(d.form), module |-> <<DefNames[j]>>]

Lists == {"Enum", "Struct"}

\* The texts the parser's operations are called on: one piece each.
ParserDescs ==
    {Desc(k, n, f) : k \in Lists, n \in 0..MaxItems, f \in {"plain", "comment"}}
    \cup {Desc(k, n, f) : k \in Lists, n \in 1..MaxItems, f \in {"trail", "numident"}}
    \cup {Desc(k, n, "nosep") : k \in Lists, n \in 2..MaxItems}
    \cup {Desc("Struct", n, "noattr") : n \in 1..MaxItems}
    \cup {Desc("Field", 1, f) : f \in {"plain", "noattr", "numident"}}
    \cup {Desc(k, 0, "plain") : k \in {"Typedef", "Namespace", "Include", "Junk", "Hash"}}

ParserInputs == {<<>>} \cup {<<d>> : d \in ParserDescs}

\* The texts compile is run on: up to MaxDefs pieces.
CompileDescs ==
    {Desc(k, n, "plain") : k \in Lists \cup {"Service"}, n \in 0..MaxItems}
    \cup {Desc(k, 1, "trail") : k \in Lists}
    \cup {Desc("Enum", 1, "numident"), Desc("Struct", 1, "noattr")}
    \cup {Desc("Typedef", 0, f) : f \in {"plain", "numident"}}
    \cup {Desc(k, 0, "plain") : k \in {"Const", "Namespace", "Include", "Hash"}}
    \cup {Desc("Hash", 0, "block")}

\* A comment that is not closed holds the rest of the text, so it is the
\* last piece.
CompileInputs ==
    UNION {[1..n -> CompileDescs] : n \in 0..MaxDefs}
    \cup {Append(ds, Desc("Hash", 0, "open")) :
             ds \in UNION {[1..n -> CompileDescs] : n \in 0..(MaxDefs - 1)}}

\* The texts find_rust_namespace is run on: up to MaxNs pieces.
NsDescs ==
    {Desc("Namespace", 0, f) : f \in {"plain", "cpp", "Rust"}}
    \cup {Desc("Enum", 0, "plain"), Desc("Hash", 0, "plain")}

NsInputs == UNION {[1..n -> NsDescs] : n \in 0..MaxNs}

\* The characters the tokenizer is run on, in every text of up to MaxLexLen.
LexChars == {"a", "1", ":", "@", " ", "/", "*", "#", "\n", "\"", "NBSP"}

RECURSIVE Encode(_)
Encode(chars) ==
    IF chars = <<>> THEN <<>> ELSE Utf8(Head(chars)) \o Encode(Tail(chars))

LexInputs == {Encode(chars) : chars \in UNION {[1..n -> LexChars] : n \in 0..MaxLexLen}}

\* A text made around one lexeme: a word made of the keyword kw, the number
\* n, a comment or a quoted string, written in some form and followed by
\* some text.
Lexeme(kind, kw, n, form, follow) ==
    [kind |-> kind, kw |-> kw, n |-> n, form |-> form, follow |-> follow]

\* The capital of the first letter of a keyword.
Capital(c) ==
    CASE c = "s" -> "S" [] c = "e" -> "E" [] c = "n" -> "N" [] c = "r" -> "R"
      [] c = "o" -> "O" [] c = "t" -> "T" [] c = "i" -> "I" [] c = "c" -> "C"

\* A word made of the spelling w of a keyword.
WordOf(w, form) ==
    CASE form = "exact" -> w
      [] form = "longer" -> w \o <<"s">>
      [] form = "shorter" -> SubSeq(w, 1, Len(w) - 1)
      [] form = "capital" -> <<Capital(w[1])>> \o Tail(w)
      [] form = "underscore" -> <<"_">> \o w
      [] form = "digit" -> w \o <<"1">>

\* What follows the lexeme in the text.
Follow(follow) ==
    CASE follow = "end" -> <<>>
      [] follow = "colon" -> <<":">>
      [] follow = "word" -> <<" ", "x">>
      [] follow = "letters" -> <<"f", "o", "o">>
      [] follow = "line" -> <<"\n", ":">>

WordLexemes ==
    {Lexeme("Word", k, 0, f, g) :
        k \in Keywords,
        f \in {"exact", "longer", "shorter", "capital", "underscore", "digit"},
        g \in {"end", "colon", "word"}}

\* A comment in one of its forms.
CommentOf(form) ==
    CASE form = "hash" -> <<"#", "a">>
      [] form = "slashes" -> <<"/", "/", "a">>
      [] form = "block" -> <<"/", "*", "a", "\n", "*", "/">>
      [] form = "stars" -> <<"/", "*", "*", "*", "/">>
      [] form = "star inside" -> <<"/", "*", " ", "a", " ", "*", " ", "b", " ", "*", "/">>

CommentLexemes ==
    {Lexeme("Comment", "", 0, f, g) :
        f \in {"hash", "slashes", "block", "stars", "star inside"},
        g \in {"end", "colon", "line", "word"}}

\* What a quoted string holds between its quotes.
StringBody(form) ==
    CASE form = "empty" -> <<>>
      [] form = "comment" -> <<"#">>
      [] form = "words" -> <<"a", " ", "1", ":">>
      [] form = "two bytes" -> Utf8("e_acute") \o <<"a">>

StringLexemes ==
    {Lexeme("String", "", 0, f, g) :
        f \in {"empty", "comment", "words", "two bytes"},
        g \in {"end", "colon", "word", "letters"}}

\* The decimal digits of n.
RECURSIVE Digits(_)
Digits(n) ==
    IF n < 10 THEN <<CHOOSE c \in Digit : DigitVal(c) = n>>
    ELSE Bind(n \div 10, LAMBDA m : Digits(m)) \o <<CHOOSE c \in Digit : DigitVal(c) = n % 10>>

NumberLexemes ==
    {Lexeme("Number", "", n, f, g) :
        n \in {0, 7, 10, 4096, I16Max, I16Max + 1, 2 * I16Max + 2, 99999},
        f \in {"plain", "zeros"},
        g \in {"end", "colon", "word", "letters"}}

\* A character of none of the classes next_token matches, named by form.
OtherLexemes ==
    {Lexeme("Other", "", 0, f, g) :
        f \in {"@", "-", "'", "*", "/", "e_acute"},
        g \in {"end", "colon", "word", "letters"}}

Lexemes ==
    WordLexemes \cup CommentLexemes \cup StringLexemes \cup NumberLexemes
    \cup OtherLexemes

LexemeText(d) ==
    CASE d.kind = "Word" -> WordOf(Spelling(d.kw), d.form) \o Follow(d.follow)
      [] d.kind = "Comment" -> <<"<">> \o CommentOf(d.form) \o Follow(d.follow)
      [] d.kind = "Number" ->
             (IF d.form = "zeros" THEN <<"0", "0">> ELSE <<>>) \o Digits(d.n) \o Follow(d.follow)
      [] d.kind = "Other" -> Utf8(d.form) \o Follow(d.follow)
      [] d.kind = "String" ->
             <<"\"">> \o StringBody(d.form) \o <<"\"">> \o Follow(d.follow)

(***************************************************************************)
(* State.                                                                   *)
(*   parser  the Parser                                                     *)
(*   last    the last call made on the parser: the operation, its argument,*)
(*           the parser before the call and the value returned              *)
(*   input   the descriptors of the text the parser was made on             *)
(*   pc      where compile is: "init", "loop", "done", "err" or "panic"     *)
(*           (find_rust_namespace: "find", "found", "notfound", "panic")    *)
(*           ("api" and "lex" where the parser is called directly)          *)
(*   log     what compile has parsed and rendered so far (where the         *)
(*           tokenizer is called directly: what each call scanned)          *)
(*   result  what compile returned                                          *)
(***************************************************************************)
NoCall(p) == [op |-> "new", arg |-> <<>>, pre |-> p, r |-> <<>>]

None == [kind |-> "None", err |-> ""]

OkUnit == [kind |-> "Ok", err |-> ""]

\* A call of a parser operation whose outcome is res.
Call(op, arg, res) ==
    /\ ~Panicked(parser)
    /\ parser' = res.p
    /\ last' = [op |-> op, arg |-> arg, pre |-> parser, r |-> res.r]
    /\ UNCHANGED <<input, pc, log, result>>

(***************************************************************************)
(* compile                                                                  *)
(***************************************************************************)
Init ==
    /\ input \in CompileInputs
    /\ \E text \in {Text(input)} : parser = New(text)
    /\ last = NoCall(parser)
    /\ pc = "init"
    /\ log = <<>>
    /\ result = None

\* The preamble: the base template, rendered before the loop.
CompileBase ==
    /\ pc = "init"
    /\ log' = <<Render("base", <<>>)>>
    /\ pc' = "loop"
    /\ UNCHANGED <<parser, last, input, result>>

\* One pass of the loop through the branch of kind.
Branch(kind) ==
    /\ \E d \in {Dispatch(parser)} :
       /\ d.kind = kind
       /\ \E res \in {ParseOf(kind, d.p)} :
          /\ parser' = res.p
          /\ IF Panicked(res.p)
             THEN pc' = "panic" /\ UNCHANGED <<log, result>>
             ELSE /\ log' = log \o Emit(kind, res.r)
                  /\ pc' = After(res.r)
                  /\ result' = IF res.r.ok THEN result ELSE From(res.r)
    /\ UNCHANGED <<last, input>>

CompileEnum == pc = "loop" /\ Branch("Enum")

CompileStruct == pc = "loop" /\ Branch("Struct")

CompileTypedef == pc = "loop" /\ Branch("Typedef")

CompileConst == pc = "loop" /\ Branch("Const")

CompileService == pc = "loop" /\ Branch("Service")

\* The else branch: break, and Ok(()).
CompileBreak ==
    /\ pc = "loop"
    /\ \E d \in {Dispatch(parser)} : d.kind = "break" /\ parser' = d.p
    /\ pc' = "done"
    /\ result' = OkUnit
    /\ UNCHANGED <<last, input, log>>

\* The first lookahead_keyword panics while it loads the first token.
CompilePanic ==
    /\ pc = "loop"
    /\ \E d \in {Dispatch(parser)} : d.kind = "panic" /\ parser' = d.p
    /\ pc' = "panic"
    /\ UNCHANGED <<last, input, log, result>>

Next ==
    \/ CompileBase
    \/ CompileEnum
    \/ CompileStruct
    \/ CompileTypedef
    \/ CompileConst
    \/ CompileService
    \/ CompileBreak
    \/ CompilePanic

Spec == Init /\ [][Next]_vars

\* compile runs on: a step that can be taken is taken.
SpecFair == Init /\ [][Next]_vars /\ WF_vars(Next)

(***************************************************************************)
(* find_rust_namespace, a pass of its loop at a time.  log holds the        *)
(* namespaces it has skipped.                                               *)
(***************************************************************************)
\* A test of the language that does not tell the case of its letters.
IsRustAnyCase(ns) == ns.lang \in {<<"r", "u", "s", "t">>, <<"R", "u", "s", "t">>}

\* &*ns.lang == "rust"
IsRust(ns) == ns.lang = <<"r", "u", "s", "t">>

\* Ok(ns)
Found(ns) == [kind |-> "Ok", err |-> "", val |-> ns]

FindInit ==
    /\ input \in NsInputs
    /\ \E text \in {Text(input)} : parser = New(text)
    /\ last = NoCall(parser)
    /\ pc = "find"
    /\ log = <<>>
    /\ result = None

\* One pass of the loop: parse_namespace()?, then the test of its lang.
FindPass(outcome) ==
    /\ pc = "find"
    /\ \E res \in {parse_namespace(parser)} :
       /\ outcome = (IF Panicked(res.p) THEN "panic"
                     ELSE IF ~res.r.ok THEN "err"
                     ELSE IF IsRust(res.r.val) THEN "return" ELSE "continue")
       /\ parser' = res.p
       /\ last' = [op |-> "parse_namespace", arg |-> <<>>, pre |-> parser, r |-> res.r]
       /\ pc' = (CASE outcome = "panic" -> "panic"
                   [] outcome = "err" -> "notfound"
                   [] outcome = "return" -> "found"
                   [] outcome = "continue" -> "find")
       /\ log' = IF outcome = "continue" THEN Append(log, res.r.val) ELSE log
       /\ result' = (CASE outcome = "err" -> From(res.r)
                       [] outcome = "return" -> Found(res.r.val)
                       [] OTHER -> result)
    /\ UNCHANGED input

FindContinue == pc = "find" /\ FindPass("continue")

FindReturn == pc = "find" /\ FindPass("return")

FindErr == pc = "find" /\ FindPass("err")

FindPanic == pc = "find" /\ FindPass("panic")

FindNext ==
    \/ FindContinue
    \/ FindReturn
    \/ FindErr
    \/ FindPanic

SpecNamespace == FindInit /\ [][FindNext]_vars

(***************************************************************************)
(* The helper expr, called once for each of the parameters a template hands *)
(* it.  input holds the parameters, log what has been written to the        *)
(* render context's writer.                                                 *)
(***************************************************************************)
MaxParams == 3

\* A helper call without a parameter.
NoParam == "no parameter"

\* The type spellings a template hands to the helper.
TySpellings == {"string", "i16", "i32", "i64", "bool", "byte", "double", "Foo", "i32 ", ""}

\* Ty::from: the type value of a spelling; a spelling that is no primitive's
\* is a named type.
TyFrom(spelling) ==
    CASE spelling = "string" -> [ty |-> "String", name |-> ""]
      [] spelling = "i16" -> [ty |-> "I16", name |-> ""]
      [] spelling = "i32" -> [ty |-> "I32", name |-> ""]
      [] spelling = "i64" -> [ty |-> "I64", name |-> ""]
      [] spelling = "bool" -> [ty |-> "Bool", name |-> ""]
      [] spelling = "byte" -> [ty |-> "Byte", name |-> ""]
      [] spelling = "double" -> [ty |-> "Double", name |-> ""]
      [] OTHER -> [ty |-> "Ident", name |-> spelling]

\* A match that reads a type it does not know as a string.
ExprLenient(ty) ==
    CASE ty.ty = "I32" -> [panic |-> FALSE, expr |-> "de.deserialize_i32()"]
      [] ty.ty = "I16" -> [panic |-> FALSE, expr |-> "de.deserialize_i16()"]
      [] ty.ty = "I64" -> [panic |-> FALSE, expr |-> "de.deserialize_i64()"]
      [] ty.ty = "Bool" -> [panic |-> FALSE, expr |-> "de.deserialize_bool()"]
      [] OTHER -> [panic |-> FALSE, expr |-> "de.deserialize_str()"]

\* The match of helper_ty_expr: the expression of a type, or the panic.
Expr(ty) ==
    CASE ty.ty = "String" -> [panic |-> FALSE, expr |-> "de.deserialize_str()"]
      [] ty.ty = "I32" -> [panic |-> FALSE, expr |-> "de.deserialize_i32()"]
      [] ty.ty = "I16" -> [panic |-> FALSE, expr |-> "de.deserialize_i16()"]
      [] ty.ty = "I64" -> [panic |-> FALSE, expr |-> "de.deserialize_i64()"]
      [] ty.ty = "Bool" -> [panic |-> FALSE, expr |-> "de.deserialize_bool()"]
      [] OTHER -> [panic |-> TRUE, expr |-> ""]

RenderError == [kind |-> "RenderError", err |-> "Param 0 is required for expr helper."]

\* helper_ty_expr on the parameter param and the writer wr: the writer after
\* the call, and what the call returns or that it panics.
helper_ty_expr(param, wr) ==
    IF param = NoParam THEN [wr |-> wr, r |-> RenderError, panic |-> FALSE]
    ELSE Bind(TyFrom(param), LAMBDA ty :
         Bind(Expr(ty), LAMBDA e :
         IF e.panic THEN [wr |-> wr, r |-> None, panic |-> TRUE]
         ELSE [wr |-> Append(wr, e.expr), r |-> OkUnit, panic |-> FALSE]))

HelperInit ==
    /\ input \in UNION {[1..n -> TySpellings \cup {NoParam}] : n \in 0..MaxParams}
    /\ parser = New(<<>>)
    /\ last = NoCall(parser)
    /\ pc = "render"
    /\ log = <<>>
    /\ result = None

\* The call for the next parameter, with the outcome named.
HelperCall(outcome) ==
    /\ Len(last.arg) < Len(input)
    /\ \E param \in {input[Len(last.arg) + 1]} : \E res \in {helper_ty_expr(param, log)} :
       /\ outcome = (IF res.panic THEN "panic" ELSE res.r.kind)
       /\ last' = [op |-> "helper_ty_expr", arg |-> Append(last.arg, param),
                   pre |-> log, r |-> res.r]
       /\ log' = res.wr
       /\ result' = res.r
       /\ pc' = (IF outcome = "Ok" THEN "render" ELSE IF res.panic THEN "panic" ELSE "err")
    /\ UNCHANGED <<parser, input>>

HelperOk == pc = "render" /\ HelperCall("Ok")

HelperErr == pc = "render" /\ HelperCall("RenderError")

HelperPanic == pc = "render" /\ HelperCall("panic")

HelperNext ==
    \/ HelperOk
    \/ HelperErr
    \/ HelperPanic

SpecHelper == HelperInit /\ [][HelperNext]_vars

(***************************************************************************)
(* The parser's operations, called in any order on one text                 *)
(***************************************************************************)
ParserInit ==
    /\ input \in ParserInputs
    /\ \E text \in {Text(input)} : parser = New(text)
    /\ last = NoCall(parser)
    /\ pc = "api"
    /\ log = <<>>
    /\ result = None

\* The tokens and keywords the operations are called with.
ArgTokens ==
    {Tok("Colon"), Tok("Semi"), Tok("Comma"), Tok("LCurly"), Tok("RCurly"),
     Tok("Eof"), Tok("Comment"), Tok("B")}

ArgKeywords == {"Struct", "Enum", "Optional", "Required"}

Bump == \E p \in {bump(parser)} : Call("bump", <<>>, [p |-> p, r |-> <<>>])

SkipB == \E p \in {skip_b(parser)} : Call("skip_b", <<>>, [p |-> p, r |-> <<>>])

Eat == \E t \in ArgTokens : \E res \in {eat(parser, t)} : Call("eat", t, res)

EatKeyword ==
    \E k \in ArgKeywords : \E res \in {eat_keyword(parser, k)} :
        Call("eat_keyword", k, res)

Expect == \E t \in ArgTokens : \E res \in {expect(parser, t)} : Call("expect", t, res)

ExpectKeyword ==
    \E k \in ArgKeywords : \E res \in {expect_keyword(parser, k)} :
        Call("expect_keyword", k, res)

ExpectString == \E res \in {expect_string(parser)} : Call("expect_string", <<>>, res)

ExpectIdent == \E res \in {expect_ident(parser)} : Call("expect_ident", <<>>, res)

ParseIdent == \E res \in {parse_ident(parser)} : Call("parse_ident", <<>>, res)

ParseNumber == \E res \in {parse_number(parser)} : Call("parse_number", <<>>, res)

ParseStructField == \E res \in {parse_struct_field(parser)} : Call("parse_struct_field", <<>>, res)

ParseStruct == \E res \in {parse_struct(parser)} : Call("parse_struct", <<>>, res)

ParseEnum == \E res \in {parse_enum(parser)} : Call("parse_enum", <<>>, res)

ParseInclude == \E res \in {parse_include(parser)} : Call("parse_include", <<>>, res)

ParseTypedef == \E res \in {parse_typedef(parser)} : Call("parse_typedef", <<>>, res)

ParseNamespace == \E res \in {parse_namespace(parser)} : Call("parse_namespace", <<>>, res)

ParserNext ==
    \/ Bump
    \/ SkipB
    \/ Eat
    \/ EatKeyword
    \/ Expect
    \/ ExpectKeyword
    \/ ExpectString
    \/ ExpectIdent
    \/ ParseIdent
    \/ ParseNumber
    \/ ParseStructField
    \/ ParseStruct
    \/ ParseEnum
    \/ ParseInclude
    \/ ParseTypedef
    \/ ParseNamespace

SpecParser == ParserInit /\ [][ParserNext]_vars

\* The parse routines alone, called in any order on one text: no direct call
\* of bump, skip_b, eat, eat_keyword or expect.
RoutinesNext ==
    \/ ExpectKeyword
    \/ ExpectString
    \/ ExpectIdent
    \/ ParseIdent
    \/ ParseNumber
    \/ ParseStructField
    \/ ParseStruct
    \/ ParseEnum
    \/ ParseInclude
    \/ ParseTypedef
    \/ ParseNamespace

SpecRoutines == ParserInit /\ [][RoutinesNext]_vars

(***************************************************************************)
(* The tokenizer, called again and again on one text                        *)
(***************************************************************************)
LexInit ==
    /\ \/ input = <<>> /\ \E text \in LexInputs : parser = New(text)
       \/ \E d \in Lexemes : input = <<d>> /\ \E text \in {LexemeText(d)} : parser = New(text)
    /\ last = NoCall(parser)
    /\ pc = "lex"
    /\ log = <<>>
    /\ result = None

\* What one call of next_token did: the token it returned and the cursor
\* before and after it.
Scanned(pre, nt) == [tok |-> nt.t, from |-> pre.pos, to |-> nt.p.pos]

NextToken ==
    /\ ~Panicked(parser)
    /\ Len(log) < MaxCalls
    /\ \E nt \in {next_token(parser)} :
       /\ parser' = nt.p
       /\ last' = [op |-> "next_token", arg |-> <<>>, pre |-> parser, r |-> nt.t]
       /\ log' = IF Panicked(nt.p) THEN log ELSE Append(log, Scanned(parser, nt))
    /\ UNCHANGED <<input, pc, result>>

LexNext == NextToken

SpecLexer == LexInit /\ [][LexNext]_vars

(***************************************************************************)
(* Properties                                                               *)
(***************************************************************************)
\* The parser as new made it on its buffer, or with the first token loaded.
Fresh(p) == \E made \in {New(p.buffer)} : p = made \/ p = skip_b(made)

\* The lookahead of p is the token scanned right after a '}' of the buffer.
AfterBrace(p) ==
    \E q \in 1..Len(p.buffer) :
        /\ p.buffer[q] = "}"
        /\ \E nt \in {next_token([p EXCEPT !.pos = q])} :
               nt.t = p.token /\ nt.p.pos = p.pos

\* C1: whenever parse_enum or parse_struct returns Ok, the closing brace has
\* been consumed: the lookahead is the first token after the '}'.
C1_ClosingBraceConsumed ==
    (last.op \in {"parse_enum", "parse_struct"} /\ last.r.ok) => AfterBrace(parser)

\* A text of n >= 1 well-formed enum, struct and typedef definitions.
WellFormed(ds) ==
    /\ Len(ds) >= 1
    /\ \A j \in 1..Len(ds) :
           ds[j].kind \in {"Enum", "Struct", "Typedef"} /\ ds[j].form \in {"plain", "trail"}

\* The base template, then the parse and the rendering of the first j pieces.
RECURSIVE Emitted(_, _)
Emitted(ds, j) ==
    IF j = 0 THEN <<Render("base", <<>>)>>
    ELSE Emitted(ds, j - 1) \o Emit(ds[j].kind, Ok(Value(ds[j], j)))

\* C2: on n >= 1 well-formed definitions written back to back, compile ends
\* with Ok, having parsed and emitted all n, one at a time in source order.
C2_AllEmittedInOrder ==
    (WellFormed(input) /\ pc \in {"done", "err", "panic"}) =>
        (pc = "done" /\ result = OkUnit /\ log = Emitted(input, Len(input)))

\* C3: after any sequence of bump, eat and parse calls the lookahead is never
\* Comment, and a comment inside the braces of a struct or enum does not
\* change what parse_struct or parse_enum returns.
C3_NoCommentLookahead ==
    /\ parser.token.kind # "Comment"
    /\ \A d \in ParserDescs :
           (/\ input = <<d>>
            /\ d.form = "comment"
            /\ last.op \in {"parse_enum", "parse_struct"}
            /\ Fresh(last.pre)) => last.r = Ok(Value(d, 1))

\* C4: when a parse routine compile invoked has returned an Expected failure,
\* compile has returned Err(Parser(Expected)): the failed parse is the last
\* thing it did, nothing was rendered for it, and no step follows.
C4_FailureAborts ==
    \A i \in 1..Len(log) :
        (log[i].ev = "parse" /\ ~log[i].ok) =>
            /\ i = Len(log)
            /\ pc = "err"
            /\ result = [kind |-> "Parser", err |-> "Expected"]
            /\ ~ENABLED Next

\* C4 happens: compile failed on a construct after it had emitted another.
C4_Witness ==
    /\ pc = "err"
    /\ \E i \in 1..Len(log) : log[i].ev = "render" /\ log[i].template # "base"

\* C5 as stated: once next_token has returned Eof, every later call returns
\* Eof and leaves the cursor where it was.
C5_AsStated ==
    \A i, j \in 1..Len(log) :
        (i < j /\ log[i].tok = Tok("Eof")) =>
            /\ log[j].tok = Tok("Eof")
            /\ log[j].from = log[i].to
            /\ log[j].to = log[i].to

\* C5: once next_token has returned Eof with the cursor at or past the end of
\* the buffer, every later call returns Eof and leaves the cursor where it
\* was.
C5_EofAbsorbing ==
    \A i, j \in 1..Len(log) :
        (i < j /\ log[i].tok = Tok("Eof") /\ log[i].to >= Len(parser.buffer)) =>
            /\ log[j].tok = Tok("Eof")
            /\ log[j].from = log[i].to
            /\ log[j].to = log[i].to

\* C5 happens: after a token of the text, two calls at its end.
C5_Witness ==
    /\ Len(log) >= 3
    /\ log[1].tok # Tok("Eof")
    /\ \E i \in 2..(Len(log) - 1) :
           log[i].tok = Tok("Eof") /\ log[i].to >= Len(parser.buffer)

\* C6 as stated: bump aborts with 'bump past eof' exactly when the flag was
\* set; with lookahead Eof and the flag unset it succeeds, sets the flag and
\* leaves the lookahead Eof.
C6_AsStated ==
    last.op = "bump" =>
        /\ (parser.panic = PastEof) <=> last.pre.last_token_eof
        /\ (last.pre.token = Tok("Eof") /\ ~last.pre.last_token_eof) =>
               (~Panicked(parser) /\ parser.last_token_eof /\ parser.token = Tok("Eof"))

\* C6: bump aborts with 'bump past eof' exactly when the flag was set; with
\* lookahead Eof and the flag unset, a bump that returns has set the flag, and
\* with the cursor at the end of the buffer it does return and leaves the
\* lookahead Eof.
C6_BumpPastEof ==
    last.op = "bump" =>
        /\ (parser.panic = PastEof) <=> last.pre.last_token_eof
        /\ (last.pre.token = Tok("Eof") /\ ~last.pre.last_token_eof /\ ~Panicked(parser)) =>
               parser.last_token_eof
        /\ (last.pre.token = Tok("Eof") /\ ~last.pre.last_token_eof /\ eof(last.pre)) =>
               (~Panicked(parser) /\ parser.last_token_eof /\ parser.token = Tok("Eof"))

\* C6 happens: a bump past an end-of-input lookahead already consumed.
C6_Witness ==
    /\ last.op = "bump"
    /\ last.pre.token = Tok("Eof")
    /\ last.pre.last_token_eof
    /\ parser.panic = PastEof

\* C7 as stated: when the loaded lookahead equals t, eat advances and returns
\* true; otherwise it returns false and changes nothing but the lazy load of
\* the first token.
C7_AsStated ==
    last.op = "eat" =>
        \E loaded \in {skip_b(last.pre)} :
            \/ Panicked(loaded)
            \/ /\ loaded.token = last.arg
               /\ last.r = TRUE
               /\ ~Panicked(parser)
               /\ parser = bump(loaded)
            \/ /\ loaded.token # last.arg
               /\ last.r = FALSE
               /\ parser = loaded
               /\ last.pre.token # Tok("B") => parser = last.pre

\* C7: when the loaded lookahead equals t, eat advances, and returns true
\* unless the advance aborts; otherwise it returns false and changes nothing
\* but the lazy load of the first token; a load that aborts aborts eat.
C7_EatFrame ==
    last.op = "eat" =>
        \E loaded \in {skip_b(last.pre)} :
            \/ Panicked(loaded) /\ parser = loaded
            \/ /\ ~Panicked(loaded)
               /\ loaded.token = last.arg
               /\ parser = bump(loaded)
               /\ last.r = ~Panicked(parser)
            \/ /\ ~Panicked(loaded)
               /\ loaded.token # last.arg
               /\ last.r = FALSE
               /\ parser = loaded
               /\ last.pre.token # Tok("B") => parser = last.pre

\* C7 happens: an eat that failed after it loaded the first token.
C7_Witness ==
    /\ last.op = "eat"
    /\ last.r = FALSE
    /\ last.pre.token = Tok("B")
    /\ parser.token \notin {Tok("B"), Tok("Eof")}

\* The first n lookaheads from p on, as bump loads them, up to the first
\* abort.
RECURSIVE Lookaheads(_, _)
Lookaheads(p, n) ==
    IF Panicked(p) THEN <<>>
    ELSE IF n = 1 THEN <<p.token>>
    ELSE <<p.token>> \o Bind(bump(p), LAMBDA b : Bind(n - 1, LAMBDA m : Lookaheads(b, m)))

\* Token t may stand at position i of a field.
Fits(i, t) ==
    CASE i = 1 -> t.kind = "Number"
      [] i = 2 -> t = Tok("Colon")
      [] i = 3 -> t \in {Keyword("Optional"), Keyword("Required")}
      [] i \in {4, 5} -> t.kind = "Ident"

\* C8: parse_struct_field returns Ok only on the lookaheads Number, Colon,
\* Keyword(optional|required), Ident, Ident, with the field made of their
\* payloads; when one of the five positions holds another token it returns
\* Err(Expected).
C8_FieldTokens ==
    last.op = "parse_struct_field" =>
        \E ts \in {Lookaheads(skip_b(last.pre), 5)} :
            /\ last.r.ok =>
                   /\ Len(ts) = 5
                   /\ \A i \in 1..5 : Fits(i, ts[i])
                   /\ last.r.val = StructField(ts[1].num, ts[3].kw, ts[4].str, ts[5].str)
            /\ (\E i \in 1..Len(ts) : ~Fits(i, ts[i])) =>
                   (~Panicked(parser) /\ last.r = Err)

\* C8 happens: a field with the optional keyword was parsed.
C8_Witness ==
    /\ last.op = "parse_struct_field"
    /\ last.r.ok
    /\ last.r.val.attr = "Optional"

\* C9: parse_struct on 'struct S { f1; ...; fk }' returns the struct named S
\* with the k fields in the order written, each with its seq, attribute,
\* type name and field name.
C9_StructFieldsInOrder ==
    \A d \in ParserDescs :
        (/\ input = <<d>>
         /\ d.kind = "Struct"
         /\ d.form = "plain"
         /\ last.op = "parse_struct"
         /\ Fresh(last.pre)) => (~Panicked(parser) /\ last.r = Ok(Value(d, 1)))

\* C9 happens: parse_struct returned a struct of several fields.
C9_Witness ==
    /\ last.op = "parse_struct"
    /\ Fresh(last.pre)
    /\ last.r.ok
    /\ Len(last.r.val.fields) >= 2
    /\ input[1].form = "plain"

\* C10: parse_enum on 'enum E { v1, ..., vk }' returns the enum named E with
\* the variants v1..vk in the order written, and for k = 0 with none.
C10_EnumVariantsInOrder ==
    \A d \in ParserDescs :
        (/\ input = <<d>>
         /\ d.kind = "Enum"
         /\ d.form = "plain"
         /\ last.op = "parse_enum"
         /\ Fresh(last.pre)) => (~Panicked(parser) /\ last.r = Ok(Value(d, 1)))

\* C10 happens: parse_enum returned an enum of several variants.
C10_Witness ==
    /\ last.op = "parse_enum"
    /\ Fresh(last.pre)
    /\ last.r.ok
    /\ Len(last.r.val.variants) >= 2
    /\ input[1].form = "plain"

\* The pieces of ds are namespace declarations, one of them of rust.
Namespaces(ds) ==
    /\ \A j \in 1..Len(ds) : ds[j].kind = "Namespace"
    /\ \E j \in 1..Len(ds) : ds[j].form = "plain"

\* The first rust namespace of ds.
FirstRust(ds) == CHOOSE j \in 1..Len(ds) : ds[j].form = "plain" /\ \A i \in 1..(j - 1) : ds[i].form # "plain"

\* The lookahead of p is the token scanned from the end of the first j pieces
\* of the text on.
AfterPiece(p, j) ==
    \E nt \in {next_token([p EXCEPT !.pos = Len(Text(SubSeq(input, 1, j)))])} :
        nt.t = p.token /\ nt.p.pos = p.pos

\* C11: on a sequence of namespace declarations with one of rust among them,
\* find_rust_namespace returns the first of rust, having parsed and skipped
\* each declaration before it, in order, and nothing after it: the lookahead
\* is the first token after the declaration returned.
C11_FirstRustNamespace ==
    Namespaces(input) =>
        \E j \in {FirstRust(input)} :
            /\ pc \in {"find", "found"}
            /\ Len(log) < j
            /\ \A i \in 1..Len(log) : log[i] = Value(input[i], i)
            /\ pc = "found" =>
                   /\ result = Found(Value(input[j], j))
                   /\ Len(log) = j - 1
                   /\ AfterPiece(parser, j)
            /\ pc = "find" => ENABLED FindNext

\* C11 happens: a rust namespace was returned after another was skipped,
\* with a declaration left behind it.
C11_Witness ==
    /\ Namespaces(input)
    /\ pc = "found"
    /\ Len(log) >= 1
    /\ Len(input) > Len(log) + 1

\* Error::Eof
ErrorEof == [kind |-> "Eof", err |-> ""]

\* C12: when find_rust_namespace has come to the end of the input and found
\* no namespace of rust, it has returned the Eof error.
C12_NotFoundIsEof ==
    (pc = "notfound" /\ parser.token = Tok("Eof")) => result = ErrorEof

\* The offset of the first character of b at or after offset i that is not
\* white space (the length of b when there is none).
RECURSIVE SkipWs(_, _)
SkipWs(b, i) ==
    IF i < Len(b) /\ b[i + 1] \in Whitespace \cup {Cont}
    THEN Bind(i + 1, LAMBDA j : SkipWs(b, j)) ELSE i

\* The maximal run of characters of set in b from offset i on.
RECURSIVE RunFrom(_, _, _)
RunFrom(b, i, set) ==
    IF i < Len(b) /\ b[i + 1] \in set
    THEN <<b[i + 1]>> \o Bind(i + 1, LAMBDA j : RunFrom(b, j, set)) ELSE <<>>

\* The token of the word w: its keyword when w is the spelling of one, else
\* the identifier w.
WordToken(w) ==
    IF \E k \in Keywords : Spelling(k) = w
    THEN Keyword(CHOOSE k \in Keywords : Spelling(k) = w)
    ELSE Ident(w)

\* C13: on a maximal run w of letters, digits and underscores that starts
\* with a letter or an underscore, next_token returns Keyword(k) when w is
\* exactly the spelling of the keyword k, and Ident(w) otherwise, and leaves
\* the cursor at the end of w.
C13_KeywordOrIdent ==
    last.op = "next_token" =>
        \E b \in {parser.buffer} : \E i \in {SkipWs(b, last.pre.pos)} :
            (i < Len(b) /\ b[i + 1] \in IdentStart) =>
                \E w \in {RunFrom(b, i, IdentChar)} :
                    /\ ~Panicked(parser)
                    /\ last.r = WordToken(w)
                    /\ parser.pos = i + Len(w)

\* C13 happens: a word one letter longer than a keyword came back as an
\* identifier.
C13_Witness ==
    /\ last.op = "next_token"
    /\ last.r = Ident(Spelling("Struct") \o <<"s">>)

\* The scan of a whole text: the tokens that repeated calls of next_token
\* return until the first Eof, ended by Panic when a call panics.
RECURSIVE TokensFrom(_)
TokensFrom(p) ==
    Bind(next_token(p), LAMBDA nt :
    IF Panicked(nt.p) THEN <<Tok("Panic")>>
    ELSE IF nt.t = Tok("Eof") THEN <<>>
    ELSE <<nt.t>> \o TokensFrom(nt.p))

TokensOf(text) == Bind(New(text), LAMBDA p : TokensFrom(p))

\* The text b with the run ws inserted at offset i.
Insert(b, i, ws) == SubSeq(b, 1, i) \o ws \o SubSeq(b, i + 1, Len(b))

\* Runs of white space, in bytes.
WhitespaceRuns ==
    {<<" ">>, <<"\n">>, <<"\t", " ">>, Utf8("NBSP"), <<" ">> \o Utf8("NBSP")}

\* The scan so far is the scan of the whole text: it began at offset 0 and
\* its last call returned the first Eof.
ScanDone ==
    /\ pc = "lex"
    /\ ~Panicked(parser)
    /\ Len(log) > 0
    /\ \A i \in 1..Len(log) : (log[i].tok = Tok("Eof")) <=> (i = Len(log))

\* C14: white space makes no token and changes no token: next_token never
\* returns Whitespace, and a run of white space inserted before the first
\* token, after the last one or between two adjacent ones leaves the tokens
\* of the text as they were.
C14_WhitespaceInsignificant ==
    /\ last.op = "next_token" => last.r # Tok("Whitespace")
    /\ ScanDone =>
           \E tokens \in {[i \in 1..(Len(log) - 1) |-> log[i].tok]} :
               \A i \in {0} \cup {log[j].to : j \in 1..(Len(log) - 1)} :
                   \A ws \in WhitespaceRuns :
                       \E text \in {Insert(parser.buffer, i, ws)} :
                           TokensOf(text) = tokens

\* A comment starts at offset i of b: '#', '//', or '/*' with a '*/' after it.
CommentStart(b, i) ==
    /\ i < Len(b)
    /\ \/ b[i + 1] = "#"
       \/ /\ i + 1 < Len(b)
          /\ b[i + 1] = "/"
          /\ \/ b[i + 2] = "/"
             \/ /\ b[i + 2] = "*"
                /\ \E j \in (i + 2)..(Len(b) - 2) : b[j + 1] = "*" /\ b[j + 2] = "/"

\* The offset after the comment that starts at offset i of b.
CommentEnd(b, i) ==
    IF b[i + 1] = "/" /\ b[i + 2] = "*"
    THEN 2 + CHOOSE j \in (i + 2)..(Len(b) - 2) :
                 /\ b[j + 1] = "*" /\ b[j + 2] = "/"
                 /\ \A k \in (i + 2)..(j - 1) : ~(b[k + 1] = "*" /\ b[k + 2] = "/")
    ELSE i + Len(RunFrom(b, i, (Alphabet \cup {Cont}) \ {"\n", "\r"}))

\* C15: at a comment start, wherever it is in the text, next_token returns
\* Comment and leaves the cursor after the comment: before the next line
\* terminator or at the end of the text for '#' and '//', after the first
\* '*/' for '/*'; so the next token is the first one after the comment.
C15_CommentExtent ==
    last.op = "next_token" =>
        \E b \in {parser.buffer} : \E i \in {SkipWs(b, last.pre.pos)} :
            CommentStart(b, i) =>
                /\ ~Panicked(parser)
                /\ last.r = Tok("Comment")
                /\ parser.pos = CommentEnd(b, i)

\* The offset of the first double quote of b at or after offset i (the length
\* of b when there is none).
RECURSIVE QuoteFrom(_, _)
QuoteFrom(b, i) ==
    IF i < Len(b) /\ b[i + 1] # "\""
    THEN Bind(i + 1, LAMBDA j : QuoteFrom(b, j)) ELSE i

\* The characters of b from offset i up to offset j.
Chars(b, i, j) == SelectSeq(SubSeq(b, i + 1, j), LAMBDA c : c # Cont)

\* C16: on a double quote, next_token returns QuotedString(s), s being the
\* characters between that quote and the next double quote, and leaves the
\* cursor right after the closing quote.
C16_QuotedString ==
    last.op = "next_token" =>
        \E b \in {parser.buffer} : \E i \in {SkipWs(b, last.pre.pos)} :
            (i < Len(b) /\ b[i + 1] = "\"") =>
                \E j \in {QuoteFrom(b, i + 1)} :
                    j < Len(b) =>
                        /\ ~Panicked(parser)
                        /\ last.r = QuotedString(Chars(b, i + 1, j))
                        /\ parser.pos = j + 1

\* C16 happens: a string that holds a comment character came back whole, and
\* the scan went on after its closing quote.
C16_Witness ==
    /\ last.op = "next_token"
    /\ last.r = Tok("Colon")
    /\ Len(log) = 2
    /\ log[1].tok = QuotedString(<<"#">>)

\* C17: on a digit, next_token consumes the maximal run of digits and returns
\* Number(v), v being the base-10 value of the run, from 0 to 32767, whatever
\* follows the run; a run whose value is above 32767 makes the call panic.
C17_Number ==
    last.op = "next_token" =>
        \E b \in {parser.buffer} : \E i \in {SkipWs(b, last.pre.pos)} :
            (i < Len(b) /\ b[i + 1] \in Digit) =>
                /\ ~Panicked(parser) =>
                       /\ last.r.kind = "Number"
                       /\ last.r.num \in 0..32767
                       /\ last.r = Number(last.r.num)
                       /\ parser.pos = i + Len(RunFrom(b, i, Digit))
                /\ Panicked(parser) => parser.panic = ParseIntError
                /\ \A d \in {input[k] : k \in 1..Len(input)} :
                       (d.kind = "Number" /\ i = 0) =>
                           IF d.n <= 32767
                           THEN ~Panicked(parser) /\ last.r = Number(d.n)
                           ELSE Panicked(parser)

\* C17 happens: the largest number came back from a run of digits followed
\* by letters.
C17_Witness ==
    /\ last.op = "next_token"
    /\ last.pre.pos = 0
    /\ input = <<Lexeme("Number", "", 32767, "zeros", "letters")>>
    /\ last.r = Number(32767)

\* The templates a definition of each kind is emitted with.
ServiceTemplates == <<"service", "service_client", "service_server">>

OwnTemplate(kind) ==
    CASE kind = "Enum" -> "enum"
      [] kind = "Struct" -> "struct"
      [] kind = "Typedef" -> "typedef"
      [] kind = "Const" -> "const"

\* The n entries of log after entry i are renderings, of one data record.
Renderings(i, n) ==
    /\ Len(log) >= i + n
    /\ \A k \in 1..n : log[i + k].ev = "render" /\ log[i + k].data = log[i + 1].data
    /\ Len(log) > i + n => log[i + n + 1].ev = "parse"

\* C18: a parsed service is emitted three times, with the templates service,
\* service_client and service_server in that order and one data record, and a
\* parsed enum, struct, typedef or const once, with the template of its own
\* name, before the next top-level keyword is looked at; a definition that
\* failed to parse is not emitted.
C18_EmissionsPerKind ==
    \A i \in 1..Len(log) :
        log[i].ev = "parse" =>
            IF ~log[i].ok THEN i = Len(log)
            ELSE IF log[i].kind = "Service"
            THEN /\ Renderings(i, 3)
                 /\ \A k \in 1..3 : log[i + k].template = ServiceTemplates[k]
            ELSE /\ Renderings(i, 1)
                 /\ log[i + 1].template = OwnTemplate(log[i].kind)

\* C18 happens: a service was emitted with its three templates and the loop
\* went on to parse the definition after it.
C18_Witness ==
    \E i \in 1..Len(log) :
        /\ log[i].ev = "parse" /\ log[i].kind = "Service" /\ log[i].ok
        /\ Len(log) > i + 4
        /\ log[i + 3].template = "service_server"
        /\ log[i + 4].ev = "parse"
        /\ log[i + 4].ok

\* The parser with its lookahead loaded, as the first lookahead_keyword of a
\* pass leaves it.
Loaded(p) == IF p.token = Tok("B") THEN bump(p) ELSE p

\* The lookahead of p is none of the keywords the loop dispatches on.
NotDispatched(p) ==
    /\ ~Panicked(p)
    /\ p.token \notin {Keyword(k) : k \in {"Enum", "Struct", "Typedef", "Const", "Service"}}

\* C19: a pass of compile's loop ends the loop exactly when the lookahead is
\* none of enum, struct, typedef, const and service (the end of the input or
\* any other token, the keywords namespace and include among them): compile
\* then returns Ok, with the rest of the input unconsumed and nothing more
\* emitted, and takes no further step.
C19_BreakReturnsOk ==
    [][/\ pc # "done"
       /\ pc = "loop" =>
              \E p \in {Loaded(parser)} :
                  /\ pc' = "done" <=> NotDispatched(p)
                  /\ pc' = "done" => result' = OkUnit /\ log' = log /\ parser' = p]_vars

\* C19 happens: after a definition was emitted the loop ended with Ok on the
\* keyword include, left as the lookahead.
C19_Witness ==
    /\ pc = "done"
    /\ result = OkUnit
    /\ parser.token = Keyword("Include")
    /\ Len(log) > 1
    /\ parser.pos < Len(parser.buffer)

\* The first token of the second item of a list of kind.
SecondItem(kind) ==
    IF kind = "Enum" THEN Ident(<<VariantNames[2]>>) ELSE Number(2)

\* The number of tokens of the list d after the first token of its second
\* item, the closing brace included (a field is five tokens, a variant one).
Unread(d) == IF d.kind = "Enum" THEN d.n - 1 ELSE 5 * (d.n - 1)

\* C20: a separator missing after an item that is not the last is no error:
\* on a list whose items are not separated, parse_enum and parse_struct
\* return Ok with the first item only, and the items after it stay unread,
\* the second one's first token being the lookahead.
C20_MissingSeparatorEndsList ==
    \A d \in ParserDescs :
        (/\ input = <<d>>
         /\ d.form = "nosep"
         /\ last.op = (IF d.kind = "Enum" THEN "parse_enum" ELSE "parse_struct")
         /\ Fresh(last.pre)) =>
            /\ ~Panicked(parser)
            /\ last.r = Ok(Value(Desc(d.kind, 1, "plain"), 1))
            /\ parser.token = SecondItem(d.kind)
            /\ Len(TokensFrom(parser)) = Unread(d)

\* C20 happens: parse_struct returned one field of a struct written with two
\* fields and no ';' between them.
C20_Witness ==
    /\ last.op = "parse_struct"
    /\ Fresh(last.pre)
    /\ Len(input) = 1
    /\ input[1].form = "nosep"
    /\ last.r.ok
    /\ Len(last.r.val.fields) = 1
    /\ parser.token = Number(2)

\* The character at offset i of b is of no class next_token recognizes: it
\* is no punctuation, quote, digit, white space or identifier character and
\* starts no comment.
Unrecognized(b, i) ==
    /\ i < Len(b)
    /\ \/ b[i + 1] \in
              Alphabet \ ({":", ".", ";", ",", "\"", "=", "{", "}", "<", ">", "#", "/"}
                          \cup Digit \cup Whitespace \cup Lower \cup Upper \cup {"_"})
       \/ b[i + 1] = "/" /\ ~(i + 1 < Len(b) /\ b[i + 2] \in {"/", "*"})

\* C21: on a character of no recognized class ('@', '-', a single quote, a
\* '/' followed by neither '/' nor '*'), next_token consumes the character
\* and returns Eof: no other token, and no failure.
C21_UnrecognizedIsEof ==
    last.op = "next_token" =>
        \E b \in {parser.buffer} : \E i \in {SkipWs(b, last.pre.pos)} :
            Unrecognized(b, i) =>
                /\ ~Panicked(parser)
                /\ last.r = Tok("Eof")
                /\ parser.pos = i + Utf8Len(b[i + 1])

\* C22: compile terminates: it comes to return Ok, to return Err or to abort,
\* and every pass of its loop that does not end the loop advances the cursor.
C22_CompileTerminates ==
    /\ <>(pc \in {"done", "err", "panic"})
    /\ [][(pc = "loop" /\ pc' = "loop") => parser'.pos > parser.pos]_vars

\* C22 happens: compile has returned after two passes that went on, the
\* cursor at the end of the text.
C22_Witness ==
    /\ pc = "done"
    /\ Cardinality({i \in 1..Len(log) : log[i].ev = "parse" /\ log[i].ok}) >= 2
    /\ parser.pos = Len(parser.buffer)

\* The expression the design gives each primitive type.
Primitives ==
    [String |-> "de.deserialize_str()", I16 |-> "de.deserialize_i16()",
     I32 |-> "de.deserialize_i32()", I64 |-> "de.deserialize_i64()",
     Bool |-> "de.deserialize_bool()"]

\* C23: helper_ty_expr writes de.deserialize_str(), _i16(), _i32(), _i64() or
\* _bool() for the type string, i16, i32, i64 or bool and nothing else, and
\* for every other type it panics and writes nothing.
C23_ExprOnPrimitivesOnly ==
    (last.op = "helper_ty_expr" /\ last.arg[Len(last.arg)] # NoParam) =>
        \E ty \in {TyFrom(last.arg[Len(last.arg)])} :
            IF ty.ty \in DOMAIN Primitives
            THEN /\ pc = "render"
                 /\ result = OkUnit
                 /\ log = Append(last.pre, Primitives[ty.ty])
            ELSE /\ pc = "panic"
                 /\ log = last.pre

\* C23 happens: after an expression was written, the helper panicked on a
\* named type and the writer was left as it was.
C23_Witness ==
    /\ last.op = "helper_ty_expr"
    /\ last.arg = <<"i64", "Foo">>
    /\ pc = "panic"
    /\ log = <<"de.deserialize_i64()">>

====
